---- MODULE Spec2Model ----
(***************************************************************************)
(* Finite-field arithmetic (field_element.rs) and the elliptic-curve point *)
(* group built on it (point.rs).  Every operation of the crate is a pure   *)
(* function on immutable values, so the state machine draws the arguments  *)
(* of one call in Init and the action of that call applies the operation.  *)
(* A panic of the Rust code is the value Panic.                            *)
(***************************************************************************)
EXTENDS Integers, Sequences, FiniteSets, TLC

VARIABLES overflow_checks, op, args, ret, adds

vars == <<overflow_checks, op, args, ret, adds>>

(***************************************************************************)
(* i32 arithmetic.  FieldElement.num and FieldElement.prime are i32.  An   *)
(* overflowing + or * panics when the build has overflow checks (debug     *)
(* profile) and wraps modulo 2^32 when it has not (release profile); the   *)
(* variable overflow_checks is the profile of the build under test.        *)
(***************************************************************************)
I32_MAX == 2147483647

I32_MIN == -I32_MAX - 1

\* a panic of the Rust code, with the reason it gives
Panic(msg) == [panic |-> msg]

IsPanic(v) == "panic" \in DOMAIN v

Pending == [pending |-> TRUE]

Ok(v) == [ok |-> v]

\* the product of two values of magnitude <= 46340 fits in an i32
IsSmall(a) == a >= -46340 /\ a <= 46340

\* a + b leaves the i32 range
AddOverflows(a, b) ==
    \/ a > 0 /\ b > 0 /\ a > I32_MAX - b
    \/ a < 0 /\ b < 0 /\ a < I32_MIN - b

\* a + b reduced into the i32 range modulo 2^32 (two's complement)
wrapping_add(a, b) ==
    IF a > 0 /\ b > 0 /\ a > I32_MAX - b
    THEN ((a - I32_MAX) - 1) + ((b - I32_MAX) - 1)
    ELSE IF a < 0 /\ b < 0 /\ a < I32_MIN - b
         THEN ((a + I32_MAX) + 1) + ((b + I32_MAX) + 1)
         ELSE a + b

\* floor((I32_MAX + 1) / n) for n > 1
DivPow31(n) == (I32_MAX \div n) + (IF I32_MAX % n = n - 1 THEN 1 ELSE 0)

\* m * n <= I32_MAX + 1 for m, n > 0: the product -(m * n) is not below I32_MIN
NegFits(m, n) == IF n = 1 THEN TRUE ELSE m <= DivPow31(n)

\* the exact product a * b lies in the i32 range
MulFits(a, b) ==
    IF a = 0 \/ b = 0 THEN TRUE
    ELSE IF IsSmall(a) /\ IsSmall(b) THEN TRUE
    ELSE IF a > 0 /\ b > 0 THEN a <= I32_MAX \div b
    ELSE IF a < 0 /\ b < 0
         THEN a # I32_MIN /\ b # I32_MIN /\ (-a) <= I32_MAX \div (-b)
    ELSE IF a > 0 THEN (IF b = I32_MIN THEN a = 1 ELSE NegFits(a, -b))
    ELSE (IF a = I32_MIN THEN b = 1 ELSE NegFits(b, -a))

\* the low and the high 16 bits of the two's-complement i32 a
Lo16(a) == a % 65536

Hi16(a) == (a \div 65536) % 65536

\* u * v for 0 <= u, v < 2^16 as the two 16-bit halves of the 32-bit product
Mul16(u, v) ==
    LET p1 == (u \div 256) * v
        p0 == (u % 256) * v
        t  == (p1 % 256) * 256 + p0
    IN  [hi |-> (p1 \div 256) + (t \div 65536), lo |-> t % 65536]

\* the i32 whose two's-complement halves are hi and lo
Join32(hi, lo) ==
    IF hi >= 32768 THEN (hi - 65536) * 65536 + lo ELSE hi * 65536 + lo

\* the low 32 bits of ll + (x + y) * 2^16, as an i32
Sum32(ll, x, y) == Join32((ll.hi + x.lo + y.lo) % 65536, ll.lo)

\* a * b reduced into the i32 range modulo 2^32 (two's complement)
wrapping_mul(a, b) ==
    IF IsSmall(a) /\ IsSmall(b) THEN a * b
    ELSE Sum32(Mul16(Lo16(a), Lo16(b)), Mul16(Hi16(a), Lo16(b)),
               Mul16(Lo16(a), Hi16(b)))

\* the i32 operator +
i32_add(a, b) ==
    IF overflow_checks /\ AddOverflows(a, b)
    THEN Panic("attempt to add with overflow")
    ELSE Ok(wrapping_add(a, b))

\* the i32 operator *
i32_mul(a, b) ==
    IF overflow_checks /\ ~MulFits(a, b)
    THEN Panic("attempt to multiply with overflow")
    ELSE Ok(wrapping_mul(a, b))

\* the i32 operator % (remainder truncated towards zero), m > 0
i32_rem(a, m) ==
    IF a < 0 /\ a % m # 0 THEN (a % m) - m ELSE a % m

\* i32::rem_euclid, m > 0
rem_euclid(a, m) == a % m

(***************************************************************************)
(* FieldElement { num, prime } (field_element.rs).  An operand that is a   *)
(* panic is a panic that already unwound: the operation is never entered.  *)
(***************************************************************************)
FieldElement_new(num, prime) ==
    IF num >= prime \/ num < 0
    THEN Panic("Num not in field range")
    ELSE [num |-> num, prime |-> prime]

\* `FieldElement::new(r.rem_euclid(prime), prime)` for the i32 result r
Reduced(r, prime) ==
    IF IsPanic(r) THEN r
    ELSE FieldElement_new(rem_euclid(r.ok, prime), prime)

\* `r % modulus` for the i32 result r
Rem(r, modulus) == IF IsPanic(r) THEN r ELSE Ok(i32_rem(r.ok, modulus))

RECURSIVE mod_pow_loop(_, _, _, _)
\* the end of one turn of the while loop: m is the new result, q the square
mod_pow_next(m, q, exp, modulus) ==
    IF IsPanic(m) THEN m
    ELSE IF IsPanic(q) THEN q
    ELSE mod_pow_loop(m.ok, q.ok, exp, modulus)

\* the while loop of the closure mod_pow: square and multiply, least bit first
mod_pow_loop(result, base, exp, modulus) ==
    IF exp <= 0 THEN Ok(result)
    ELSE mod_pow_next(IF exp % 2 = 1 THEN Rem(i32_mul(result, base), modulus)
                                     ELSE Ok(result),
                      Rem(i32_mul(base, base), modulus),
                      exp \div 2, modulus)

mod_pow(base, exp, modulus) ==
    IF modulus = 1 THEN Ok(0)
    ELSE mod_pow_loop(1, i32_rem(base, modulus), exp, modulus)

FieldElement_pow(self, num) ==
    IF IsPanic(self) THEN self
    ELSE IF self.prime - 1 = 0
    THEN Panic("attempt to calculate the remainder with a divisor of zero")
    ELSE Reduced(mod_pow(self.num, rem_euclid(num, self.prime - 1), self.prime),
                 self.prime)

FieldElement_add(self, other) ==
    IF IsPanic(self) THEN self
    ELSE IF IsPanic(other) THEN other
    ELSE IF self.prime # other.prime
    THEN Panic("Cannot add two numbers in different Fields")
    ELSE Reduced(i32_add(self.num, other.num), self.prime)

FieldElement_sub(self, other) ==
    IF IsPanic(self) THEN self
    ELSE IF IsPanic(other) THEN other
    ELSE IF self.prime # other.prime
    THEN Panic("Cannot add two numbers in different Fields")
    ELSE FieldElement_add(self, Reduced(i32_mul(-1, other.num), self.prime))

FieldElement_mul(self, other) ==
    IF IsPanic(self) THEN self
    ELSE IF IsPanic(other) THEN other
    ELSE IF self.prime # other.prime
    THEN Panic("Cannot add two numbers in different Fields")
    ELSE Reduced(i32_mul(self.num, other.num), self.prime)

\* FieldElement_div with a divisor of zero rejected
FieldElement_div_checked(self, other) ==
    IF IsPanic(self) THEN self
    ELSE IF IsPanic(other) THEN other
    ELSE IF self.prime # other.prime
    THEN Panic("Cannot add two numbers in different Fields")
    ELSE IF other.num = 0 THEN Panic("attempt to divide by zero")
    ELSE FieldElement_mul(FieldElement_pow(other, self.prime - 2), self)

FieldElement_div(self, other) ==
    IF IsPanic(self) THEN self
    ELSE IF IsPanic(other) THEN other
    ELSE IF self.prime # other.prime
    THEN Panic("Cannot add two numbers in different Fields")
    ELSE FieldElement_mul(FieldElement_pow(other, self.prime - 2), self)

(***************************************************************************)
(* Coordinate and Point { a, b, x, y } (point.rs).  Coordinate::Num(f) is  *)
(* the field element f itself and Coordinate::Inf is Inf.                  *)
(***************************************************************************)
Inf == [inf |-> TRUE]

Coordinate_num(c) ==
    IF IsPanic(c) THEN c
    ELSE IF c = Inf THEN Panic("not a number")
    ELSE c

\* `lhs == rhs` on two field results
FieldEq(lhs, rhs) ==
    IF IsPanic(lhs) THEN lhs
    ELSE IF IsPanic(rhs) THEN rhs
    ELSE Ok(lhs = rhs)

\* Ok(TRUE), Ok(FALSE), or the panic of the field arithmetic it runs
Point_is_on_curve(self) ==
    IF self.x = Inf /\ self.y = Inf THEN Ok(TRUE)
    ELSE IF self.x # Inf /\ self.y # Inf
    THEN FieldEq(FieldElement_pow(self.y, 2),
                 FieldElement_add(
                     FieldElement_add(FieldElement_pow(self.x, 3),
                                      FieldElement_mul(self.a, self.x)),
                     self.b))
    ELSE Ok(FALSE)

\* `if !result.is_on_curve() { panic!(..) } result`
CheckedPoint(on, result) ==
    IF IsPanic(on) THEN on
    ELSE IF ~on.ok THEN Panic("is not on the curve")
    ELSE result

Point_new(x, y, a, b) ==
    IF IsPanic(x) THEN x
    ELSE IF IsPanic(y) THEN y
    ELSE CheckedPoint(Point_is_on_curve([a |-> a, b |-> b, x |-> x, y |-> y]),
                      [a |-> a, b |-> b, x |-> x, y |-> y])

\* `let y3 = &s * (x1 - &x3) - y1; return Point::new(Num(x3), Num(y3), a, b)`
LinePoint(s, x1, y1, x3, a, b) ==
    Point_new(x3,
              FieldElement_sub(FieldElement_mul(s, FieldElement_sub(x1, x3)), y1),
              a, b)

\* the chord case, from the slope s on
ChordPoint(s, x1, y1, x2, a, b) ==
    LinePoint(s, x1, y1,
              FieldElement_sub(FieldElement_sub(FieldElement_pow(s, 2), x1), x2),
              a, b)

\* the tangent case, from the slope s on
TangentPoint(s, x1, y1, p, a, b) ==
    LinePoint(s, x1, y1,
              FieldElement_sub(FieldElement_pow(s, 2),
                               FieldElement_mul(FieldElement_new(2, p), x1)),
              a, b)

Point_add(self, other) ==
    IF IsPanic(self) THEN self
    ELSE IF IsPanic(other) THEN other
    ELSE IF self.x = Inf THEN other
    ELSE IF other.x = Inf THEN self
    ELSE IF self.y = Inf \/ other.y = Inf THEN Panic("not a number")
    ELSE IF self.x # other.x
    THEN ChordPoint(FieldElement_div(FieldElement_sub(other.y, self.y),
                                     FieldElement_sub(other.x, self.x)),
                    self.x, self.y, other.x, self.a, self.b)
    ELSE IF self.y = other.y /\ self.y # FieldElement_new(0, self.x.prime)
    THEN TangentPoint(FieldElement_div(
                          FieldElement_add(
                              FieldElement_mul(FieldElement_new(3, self.x.prime),
                                               FieldElement_pow(self.x, 2)),
                              self.a),
                          FieldElement_mul(FieldElement_new(2, self.x.prime),
                                           self.y)),
                      self.x, self.y, self.x.prime, self.a, self.b)
    ELSE Point_new(Inf, Inf, self.a, self.b)

RECURSIVE i64_mul_loop(_, _, _, _)
\* the loop `for _ in 0..self { result = result + &other }`; i counts the
\* additions already made
i64_mul_loop(result, i, k, other) ==
    IF i >= k \/ IsPanic(result) THEN [result |-> result, adds |-> i]
    ELSE i64_mul_loop(Point_add(result, other), i + 1, k, other)

\* impl Mul<Point> for i64: k * other, with the number of point additions made
i64_mul(k, other) ==
    i64_mul_loop(Point_new(Inf, Inf, other.a, other.b), 0, k, other)

(***************************************************************************)
(* The calls the model makes.  Init draws one call and its arguments; the  *)
(* action of that call applies the operation and stores what it returns.   *)
(***************************************************************************)
\* curves are enumerated exhaustively over the moduli up to this one
MaxExhaustivePrime == 7

\* scalars of i64 * Point range over -1 .. MaxScalar
MaxScalar == 8

\* exponents of pow range over -MaxExp .. MaxExp and a few multiples of p - 1
MaxExp == 4

\* the moduli: the smallest primes, the moduli of the crate's tests
\* (13, 19, 31, 223) and the largest prime an i32 holds
FieldPrimes == {2, 3, 5, 7, 13, 19, 31, 223, I32_MAX}

PointPrimes == {2, 3, 5, 7, 223, I32_MAX}

\* residues of modulus p: all of them for a small p, else a sample
Sample(p) ==
    {v \in {0, 1, 2, 3, 6, 7, 8, 12, 13, 17, 29, 46341, 65536,
             p \div 2, p - 3, p - 2, p - 1} : v >= 0 /\ v < p}

Elements(p) == {FieldElement_new(v, p) : v \in Sample(p)}

Exps(p) == (-MaxExp .. MaxExp) \cup {p - 2, p - 1, p, 1 - p, -p}

\* curve coefficients <<a, b>> over modulus p
Curves(p) ==
    IF p <= MaxExhaustivePrime THEN (0 .. p - 1) \X (0 .. p - 1)
    ELSE IF p = 223 THEN {<<0, 7>>}
    ELSE {<<0, 1>>}

\* candidate coordinates <<x, y>> over modulus p
NumPairs(p) ==
    IF p <= MaxExhaustivePrime THEN (0 .. p - 1) \X (0 .. p - 1)
    ELSE IF p = 223
    THEN {<<192, 105>>, <<192, 118>>, <<49, 71>>, <<49, 152>>, <<170, 142>>,
          <<60, 139>>, <<220, 181>>, <<15, 86>>, <<15, 137>>, <<47, 71>>,
          <<17, 56>>, <<143, 98>>, <<76, 66>>, <<200, 119>>, <<42, 99>>}
    ELSE {<<0, 1>>, <<0, p - 1>>, <<2, 3>>, <<2, p - 3>>, <<p - 1, 0>>, <<1, 1>>}

\* y^2 = x^3 + a*x + b modulo a small p, in plain integers
CurveEq(p, c, xy) ==
    (xy[2] * xy[2]) % p = (xy[1] * xy[1] * xy[1] + c[1] * xy[1] + c[2]) % p

Infinity(p, c) ==
    [a |-> FieldElement_new(c[1], p), b |-> FieldElement_new(c[2], p),
     x |-> Inf, y |-> Inf]

\* the Points of curve c over modulus p a caller may hold: the identity and
\* the candidate pairs on the curve (over the moduli 2 and 3 and over the
\* sampled moduli every candidate pair; the action that uses a Point takes
\* only those that Point::new constructs)
Points(p, c) ==
    {Infinity(p, c)} \cup
    {[a |-> FieldElement_new(c[1], p), b |-> FieldElement_new(c[2], p),
      x |-> FieldElement_new(xy[1], p), y |-> FieldElement_new(xy[2], p)]
     : xy \in {q \in NumPairs(p) :
                 p <= 3 \/ p > MaxExhaustivePrime \/ CurveEq(p, c, q)}}

\* Point::new returns this very Point
Constructed(pt) == Point_new(pt.x, pt.y, pt.a, pt.b) = pt

\* the curve of the second operand of Point + Point: the same one, or one
\* whose a or b differs
SecondCurves(p, c) ==
    {c} \cup (IF p <= MaxExhaustivePrime /\ p > 2
              THEN {<<(c[1] + 1) % p, c[2]>>, <<c[1], (c[2] + 1) % p>>}
              ELSE {})

Calls ==
    {"FieldElement::new", "FieldElement::pow", "FieldElement::add",
     "FieldElement::sub", "FieldElement::mul", "FieldElement::div",
     "Point::new", "Point::add", "i64::mul"}

Inputs(call) ==
    CASE call = "FieldElement::new" ->
           UNION {{[num |-> n, prime |-> p] : n \in {-1, 0, 1, p - 1, p}}
                  : p \in FieldPrimes}
      [] call = "FieldElement::pow" ->
           UNION {{[x |-> x, e |-> e] : x \in Elements(p), e \in Exps(p)}
                  : p \in FieldPrimes}
      [] call \in {"FieldElement::add", "FieldElement::sub",
                   "FieldElement::mul", "FieldElement::div"} ->
           UNION {{[x |-> x, y |-> y] : x \in Elements(p), y \in Elements(p)}
                  : p \in FieldPrimes}
           \cup {[x |-> FieldElement_new(7, 13), y |-> FieldElement_new(7, 19)],
                 [x |-> FieldElement_new(0, 19), y |-> FieldElement_new(0, 13)]}
      [] call = "Point::new" ->
           UNION {UNION {{[x |-> x, y |-> y,
                           a |-> FieldElement_new(c[1], p),
                           b |-> FieldElement_new(c[2], p)]
                          : x \in {Inf} \cup {FieldElement_new(xy[1], p) : xy \in NumPairs(p)},
                            y \in {Inf} \cup {FieldElement_new(xy[2], p) : xy \in NumPairs(p)}}
                         : c \in Curves(p)}
                  : p \in PointPrimes}
      [] call = "Point::add" ->
           UNION {UNION {UNION {{[p1 |-> u, p2 |-> v]
                                 : u \in Points(p, c), v \in Points(p, d)}
                                : d \in SecondCurves(p, c)}
                         : c \in Curves(p)}
                  : p \in PointPrimes}
      [] call = "i64::mul" ->
           UNION {UNION {{[k |-> k, p1 |-> u]
                          : k \in -1 .. MaxScalar, u \in Points(p, c)}
                         : c \in Curves(p)}
                  : p \in PointPrimes}

Init ==
    /\ overflow_checks \in BOOLEAN
    /\ op \in Calls
    /\ args \in Inputs(op)
    /\ ret = Pending
    /\ adds = 0

Returns(v) ==
    /\ ret = Pending
    /\ ret' = v
    /\ UNCHANGED <<overflow_checks, op, args, adds>>

FieldNew ==
    /\ op = "FieldElement::new"
    /\ Returns(FieldElement_new(args.num, args.prime))

FieldPow ==
    /\ op = "FieldElement::pow"
    /\ Returns(FieldElement_pow(args.x, args.e))

FieldAdd ==
    /\ op = "FieldElement::add"
    /\ Returns(FieldElement_add(args.x, args.y))

FieldSub ==
    /\ op = "FieldElement::sub"
    /\ Returns(FieldElement_sub(args.x, args.y))

FieldMul ==
    /\ op = "FieldElement::mul"
    /\ Returns(FieldElement_mul(args.x, args.y))

FieldDiv ==
    /\ op = "FieldElement::div"
    /\ Returns(FieldElement_div(args.x, args.y))

PointNew ==
    /\ op = "Point::new"
    /\ Returns(Point_new(args.x, args.y, args.a, args.b))

PointAdd ==
    /\ op = "Point::add"
    /\ Constructed(args.p1)
    /\ Constructed(args.p2)
    /\ Returns(Point_add(args.p1, args.p2))

ScalarMul ==
    /\ op = "i64::mul"
    /\ Constructed(args.p1)
    /\ ret = Pending
    /\ \E r \in {i64_mul(args.k, args.p1)} :
           ret' = r.result /\ adds' = r.adds
    /\ UNCHANGED <<overflow_checks, op, args>>

Next ==
    \/ FieldNew
    \/ FieldPow
    \/ FieldAdd
    \/ FieldSub
    \/ FieldMul
    \/ FieldDiv
    \/ PointNew
    \/ PointAdd
    \/ ScalarMul

Spec == Init /\ [][Next]_vars

(***************************************************************************)
(* Reference arithmetic: the field of residues modulo a prime p and the    *)
(* chord-and-tangent law, in exact integers (no intermediate value leaves  *)
(* the range of the residues).  The properties below compare the results   *)
(* of the operations with it.                                              *)
(***************************************************************************)
MathAdd(u, v, p) == IF u >= p - v THEN u - (p - v) ELSE u + v

MathSub(u, v, p) == IF u >= v THEN u - v ELSE (p - v) + u

IsResidue(u, p) == u >= 0 /\ u < p

RECURSIVE MathMulAcc(_, _, _, _)
\* acc + u * v modulo p for residues acc and u, by doubling
MathMulAcc(acc, u, v, p) ==
    IF v = 0 \/ ~IsResidue(acc, p) \/ ~IsResidue(u, p) THEN acc
    ELSE MathMulAcc(IF v % 2 = 1 THEN MathAdd(acc, u, p) ELSE acc,
                    MathAdd(u, u, p), v \div 2, p)

\* u * v modulo p
MathMul(u, v, p) ==
    IF u <= 46340 /\ v <= 46340 THEN (u * v) % p ELSE MathMulAcc(0, u, v, p)

RECURSIVE MathPowAcc(_, _, _, _)
\* acc * u^e modulo p for residues acc and u, by squaring
MathPowAcc(acc, u, e, p) ==
    IF e = 0 \/ ~IsResidue(acc, p) \/ ~IsResidue(u, p) THEN acc
    ELSE MathPowAcc(IF e % 2 = 1 THEN MathMul(acc, u, p) ELSE acc,
                    MathMul(u, u, p), e \div 2, p)

\* u^e modulo p for e >= 0 (u^0 = 1, also for u = 0)
MathPow(u, e, p) == MathPowAcc(1 % p, u, e, p)

\* u / v modulo the prime p, v # 0
MathDiv(u, v, p) == MathMul(u, MathPow(v, p - 2, p), p)

Fe(v, p) == [num |-> v, prime |-> p]

IsFinite(pt) == pt.x # Inf /\ pt.y # Inf

\* y^2 = x^3 + a*x + b in the field, for a finite point
MathOnCurve(pt) ==
    LET p == pt.x.prime
    IN  MathMul(pt.y.num, pt.y.num, p)
          = MathAdd(MathAdd(MathPow(pt.x.num, 3, p),
                            MathMul(pt.a.num, pt.x.num, p), p),
                    pt.b.num, p)

\* the point the line of slope s through (x1, y1) and the abscissa x2 gives:
\* x3 = s^2 - x1 - x2, y3 = s*(x1 - x3) - y1, on the curve of pt
MathLinePoint(pt, s, x1, y1, x2) ==
    LET p  == pt.a.prime
        x3 == MathSub(MathSub(MathMul(s, s, p), x1, p), x2, p)
        y3 == MathSub(MathMul(s, MathSub(x1, x3, p), p), y1, p)
    IN  [a |-> pt.a, b |-> pt.b, x |-> Fe(x3, p), y |-> Fe(y3, p)]

\* the chord through u and v, with the slope (y2 - y1) / (x2 - x1)
MathChord(u, v) ==
    LET p == u.a.prime
    IN  MathLinePoint(u, MathDiv(MathSub(v.y.num, u.y.num, p),
                                 MathSub(v.x.num, u.x.num, p), p),
                      u.x.num, u.y.num, v.x.num)

\* the same with the slope (y2 - y1) / (x1 - x2)
MathChordReversed(u, v) ==
    LET p == u.a.prime
    IN  MathLinePoint(u, MathDiv(MathSub(v.y.num, u.y.num, p),
                                 MathSub(u.x.num, v.x.num, p), p),
                      u.x.num, u.y.num, v.x.num)

\* the tangent at u, with the slope (3*x1^2 + a) / (2*y1)
MathTangent(u) ==
    LET p == u.a.prime
    IN  MathLinePoint(u, MathDiv(MathAdd(MathMul(3 % p,
                                                 MathMul(u.x.num, u.x.num, p), p),
                                         u.a.num, p),
                                 MathMul(2 % p, u.y.num, p), p),
                      u.x.num, u.y.num, u.x.num)

MathInfinity(u) == [a |-> u.a, b |-> u.b, x |-> Inf, y |-> Inf]

\* the group law
MathPointAdd(u, v) ==
    IF u.x = Inf THEN v
    ELSE IF v.x = Inf THEN u
    ELSE IF u.x # v.x THEN MathChord(u, v)
    ELSE IF u.y = v.y /\ u.y.num # 0 THEN MathTangent(u)
    ELSE MathInfinity(u)

RECURSIVE MathScalar(_, _)
\* u added k times to the identity
MathScalar(k, u) ==
    IF k <= 0 THEN MathInfinity(u) ELSE MathPointAdd(MathScalar(k - 1, u), u)

Done(call) == op = call /\ ret # Pending

SameCurve(u, v) == u.a = v.a /\ u.b = v.b

\* the call added two finite points of one curve with different abscissas
ChordCase ==
    /\ Done("Point::add")
    /\ IsFinite(args.p1) /\ IsFinite(args.p2)
    /\ SameCurve(args.p1, args.p2)
    /\ MathOnCurve(args.p1) /\ MathOnCurve(args.p2)
    /\ args.p1.x # args.p2.x

\* C1: for every pair of finite points of one curve with x1 # x2, Point +
\* Point returns the finite point with s = (y2 - y1) / (x1 - x2),
\* x3 = s^2 - x1 - x2, y3 = s*(x1 - x3) - y1, all in the field.
C1_ChordAsClaimed ==
    ChordCase => ret = MathChordReversed(args.p1, args.p2)

\* the reflection (x3, -y3) of the finite point w lies on the line through
\* the finite points u and v: (-y3 - y1)*(x2 - x1) = (y2 - y1)*(x3 - x1)
ReflectionOnLine(w, u, v) ==
    LET p == u.a.prime
    IN  MathMul(MathSub(MathSub(0, w.y.num, p), u.y.num, p),
                MathSub(v.x.num, u.x.num, p), p)
          = MathMul(MathSub(v.y.num, u.y.num, p),
                    MathSub(w.x.num, u.x.num, p), p)

Pt223(x, y) == [a |-> Fe(0, 223), b |-> Fe(7, 223), x |-> Fe(x, 223), y |-> Fe(y, 223)]

\* C2: the chord case of Point + Point does not fail and returns the group
\* sum: a finite point of the curve whose reflection lies on the line through
\* the operands; (170,142) + (60,139) = (220,181) over 223 with a = 0, b = 7.
C2_ChordIsGroupSum ==
    ChordCase =>
        /\ ~IsPanic(ret)
        /\ ret = MathChord(args.p1, args.p2)
        /\ IsFinite(ret)
        /\ SameCurve(ret, args.p1)
        /\ MathOnCurve(ret)
        /\ ReflectionOnLine(ret, args.p1, args.p2)
        /\ (args.p1 = Pt223(170, 142) /\ args.p2 = Pt223(60, 139)
              => ret = Pt223(220, 181))

\* the call added two finite points of one curve with the same abscissa
SameAbscissaCase ==
    /\ Done("Point::add")
    /\ IsFinite(args.p1) /\ IsFinite(args.p2)
    /\ SameCurve(args.p1, args.p2)
    /\ MathOnCurve(args.p1) /\ MathOnCurve(args.p2)
    /\ args.p1.x = args.p2.x

\* C3: over any prime modulus, Point + Point of two finite points with
\* x1 = x2 returns the doubling result (s = (3*x1^2 + a)/(2*y1),
\* x3 = s^2 - 2*x1, y3 = s*(x1 - x3) - y1) when y1 = y2 and y1 # 0, and the
\* point at infinity otherwise; it never fails.
C3_DoubleOrInfinity ==
    SameAbscissaCase =>
        IF args.p1.y = args.p2.y /\ args.p1.y.num # 0
        THEN ret = MathTangent(args.p1)
        ELSE ret = MathInfinity(args.p1)

\* the call multiplied a point of its curve by a scalar k >= 0
ScalarCase ==
    /\ Done("i64::mul")
    /\ args.k >= 0
    /\ (IsFinite(args.p1) => MathOnCurve(args.p1))

\* C4: k * p, k >= 0, returns the result of adding p to the point at
\* infinity k times, so it is the point at infinity when k is a multiple of
\* the order of p; 7 * (15,86) is the point at infinity over 223, a = 0, b = 7.
C4_RepeatedAddition ==
    ScalarCase =>
        /\ ret = MathScalar(args.k, args.p1)
        /\ (args.p1 = Pt223(15, 86) /\ args.k = 7 => ret = MathInfinity(args.p1))

\* C5: pow(x, e) is x^e modulo p for e >= 0 (also for x = 0), and for e < 0
\* and x # 0 the element r with r * x^|e| = 1; 17.pow(-3) = 29 modulo 31.
C5_Pow ==
    Done("FieldElement::pow") =>
        LET p == args.x.prime
        IN  /\ ~IsPanic(ret)
            /\ ret.prime = p
            /\ ret.num >= 0 /\ ret.num < p
            /\ (args.e >= 0 => ret.num = MathPow(args.x.num, args.e, p))
            /\ (args.e < 0 /\ args.x.num # 0
                  => MathMul(ret.num, MathPow(args.x.num, -args.e, p), p) = 1)
            /\ (args.x = Fe(17, 31) /\ args.e = -3 => ret = Fe(29, 31))

\* C6: div(mul(x, y), y) = x for every x and every nonzero y of one field.
C6_DivUndoesMul ==
    (/\ Done("FieldElement::mul")
     /\ args.x.prime = args.y.prime
     /\ args.y.num # 0)
        => FieldElement_div(ret, args.y) = args.x

\* C7: add, sub and mul of two elements of one field never fail and return
\* the element of that field whose value is the least nonnegative residue of
\* the sum, the difference and the product.
C7_FieldClosure ==
    LET p == args.x.prime
    IN  /\ (Done("FieldElement::add") /\ args.y.prime = p
              => ret = Fe(MathAdd(args.x.num, args.y.num, p), p))
        /\ (Done("FieldElement::sub") /\ args.y.prime = p
              => ret = Fe(MathSub(args.x.num, args.y.num, p), p))
        /\ (Done("FieldElement::mul") /\ args.y.prime = p
              => ret = Fe(MathMul(args.x.num, args.y.num, p), p))

\* C8: Point::new yields the identity when both coordinates are infinity,
\* fails when exactly one is, and for two field elements succeeds exactly
\* when y^2 = x^3 + a*x + b holds in the field.
C8_NewOutcomes ==
    Done("Point::new") =>
        LET pt == [a |-> args.a, b |-> args.b, x |-> args.x, y |-> args.y]
        IN  IF args.x = Inf /\ args.y = Inf THEN ret = pt
            ELSE IF args.x = Inf \/ args.y = Inf THEN IsPanic(ret)
            ELSE IF MathOnCurve(pt) THEN ret = pt
            ELSE IsPanic(ret)

\* C9: Point + Point of two finite points whose curve parameters differ
\* fails; it returns no Point.
C9_IncompatibleCurve ==
    (/\ Done("Point::add")
     /\ IsFinite(args.p1) /\ IsFinite(args.p2)
     /\ ~SameCurve(args.p1, args.p2))
        => IsPanic(ret)

RECURSIVE BitLen(_)
\* the number of bits of k >= 0
BitLen(k) == IF k = 0 THEN 0 ELSE 1 + BitLen(k \div 2)

\* C10: k * p, k >= 1, makes at most 2 * (number of bits of k) point
\* additions.
C10_DoubleAndAdd ==
    (Done("i64::mul") /\ args.k >= 1) => adds <= 2 * BitLen(args.k)

\* the call ended in an arithmetic overflow panic
IsOverflowPanic(v) ==
    IsPanic(v) /\ v.panic \in {"attempt to add with overflow",
                               "attempt to multiply with overflow"}

\* C11: for every modulus that fits an i32 and all residues below it, the
\* sums and products computed by add, mul and pow never leave the i32 range:
\* no call ends in an overflow panic, and the returned value is the exact
\* residue of the sum, of the product and of the power (x # 0).
C11_NoOverflow ==
    LET p == args.x.prime
    IN  /\ (Done("FieldElement::add") /\ args.y.prime = p
              => /\ ~IsOverflowPanic(ret)
                 /\ ret = Fe(MathAdd(args.x.num, args.y.num, p), p))
        /\ (Done("FieldElement::mul") /\ args.y.prime = p
              => /\ ~IsOverflowPanic(ret)
                 /\ ret = Fe(MathMul(args.x.num, args.y.num, p), p))
        /\ (Done("FieldElement::pow") /\ args.x.num # 0
              => /\ ~IsOverflowPanic(ret)
                 /\ ret = Fe(MathPow(args.x.num, args.e % (p - 1), p), p))

\* the call divided an element by the zero element of its field
DivByZeroCase ==
    /\ Done("FieldElement::div")
    /\ args.x.prime = args.y.prime
    /\ args.y.num = 0

\* C12 as claimed: for every prime modulus p >= 2, div(x, y) with y the zero
\* element does not fail and returns the zero element of the field.
C12_DivByZeroAsClaimed ==
    DivByZeroCase => ret = Fe(0, args.x.prime)

\* C12 as amended: div(x, y) with y the zero element does not fail; for
\* every prime modulus p >= 3 it returns the zero element (0^(p-2) = 0), and
\* for the modulus 2 it returns x (the exponent p - 2 is 0 and 0^0 = 1).
C12_DivByZero ==
    DivByZeroCase =>
        IF args.x.prime >= 3 THEN ret = Fe(0, args.x.prime) ELSE ret = args.x

\* a nonzero element of the field of modulus 31 was divided by zero and the
\* zero element came back
C12_Witness ==
    /\ DivByZeroCase
    /\ args.x = Fe(17, 31)
    /\ ret = Fe(0, 31)

====
